---- MODULE Spec2Model ----
(***************************************************************************)
(* Model of the rate-limited, acknowledgment-aware job delivery pipeline   *)
(* of src/src/app.ts (src/unnamed/part_000 is an earlier variant of the    *)
(* same pipeline without media support).                                   *)
(*                                                                         *)
(* The program runs on one event loop.  Every action below is one          *)
(* run-to-completion step of that loop: the code executed between two      *)
(* suspension points (an await on broker or adapter I/O, a timer).         *)
(* Time is counted in ticks of 1000 ms, by clocks and timer delays.        *)
(***************************************************************************)
EXTENDS Integers, Sequences, FiniteSets, TLC

\* ------------------------------------------------------------------ bounds
MaxRuns == 3
MaxMsgs == 2

\* -------------------------------------------------------- program constants
\* +process.env.RATE_LIMIT_TIME_MS (2000 ms in the spec's scenario), in ticks
RATE_LIMIT_TIME_MS == 2
\* reconnectAfterDelay's default delay of 1000 ms, in ticks
ReconnectDelay == 1

VARIABLES
    queue,                  \* broker side: the contents of the messages published
                            \* to the job queue (process.env.JOB_QUEUE)
    elapsed,                \* Date.now() - lastProcessedTimeStamp (app.ts:40, 125),
                            \* counted up to RATE_LIMIT_TIME_MS: the code only
                            \* compares it with, and subtracts it from, that value
    waReady,                \* module-level let, app.ts:39
    channel,                \* module-level handle, app.ts:38: the run whose channel
                            \* it holds (0: unassigned); the handle `connection`
                            \* (app.ts:37) is assigned by main and read nowhere
    runs,                   \* the invocations of main(), in order of scheduling
    conn,                   \* state of the broker connection made by run k
    chan,                   \* state of the broker channel made by run k
    unacked,                \* broker side: the unsettled delivery of channel k (0: none)
    msgs,                   \* the messages handed to processMessage, in order,
                            \* each with the adapter calls (calls) and the
                            \* channel.ack / channel.nack calls (settled) made for it
    sinceStart              \* observer of the spacing of processJob calls: time
                            \* since the last call, while less than
                            \* RATE_LIMIT_TIME_MS (-1: no call that recent;
                            \* -2: the spacing is not observed)

vars == <<queue, elapsed, waReady, channel, runs, conn, chan, unacked,
          msgs, sinceStart>>

\* ----------------------------------------------------------------- strings
\* A string is a sequence of one-character strings.
Str_5 == <<"5">>
Str_cus == <<"@", "c", ".", "u", "s">>
Str_us == <<".", "u", "s">>
Str_gus == <<"@", "g", ".", "u", "s">>
Str_data == <<"d", "a", "t", "a", ":">>
Str_base64 == <<";", "b", "a", "s", "e", "6", "4", ",">>

\* String.prototype.endsWith
EndsWith(s, suffix) ==
    /\ Len(suffix) <= Len(s)
    /\ SubSeq(s, Len(s) - Len(suffix) + 1, Len(s)) = suffix

\* ---------------------------------------------------------------- payloads
\* message.content: either text JSON.parse turns into a Job, or text on
\* which JSON.parse throws a SyntaxError.
TextJob(to, msg) ==
    [parses |-> TRUE, to |-> to, type |-> "text", msg |-> msg, options |-> "none"]
Malformed ==
    [parses |-> FALSE, to |-> <<>>, type |-> "", msg |-> <<>>, options |-> "none"]

\* a Job of type 'media' with options { caption }
MediaJob(to, msg) ==
    [parses |-> TRUE, to |-> to, type |-> "media", msg |-> msg, options |-> "caption"]

\* 'data:' + mime + ';base64,' + data
DataUrl(mime, data) == Str_data \o mime \o Str_base64 \o data

\* the contents the broker delivers
Payloads == { TextJob(Str_5, <<"h", "i">>), Malformed }

\* jobs of every shape processJob tells apart: a text for a bare number and
\* for a group address; a media job whose msg is a data URL with MIME type
\* image/png, one with a MIME type of one character, and one whose msg is
\* no data URL
Jobs ==
    { TextJob(Str_5, <<"h", "i">>),
      TextJob(Str_5 \o Str_gus, <<"h", "i">>),
      MediaJob(Str_5, DataUrl(<<"i", "m", "a", "g", "e", "/", "p", "n", "g">>, <<"Q", "Q">>)),
      MediaJob(Str_5 \o Str_gus, DataUrl(<<"x">>, <<"Q", "Q">>)),
      MediaJob(Str_5, <<"h", "i">>) }

\* '.' of a regular expression: any character but a line terminator
LineTerminators == {"\n", "\r"}

\* job.msg.match(/^data:([^;]);base64,(.+)$/): whether it matches, and its
\* groups 1 and 2
MediaMatches(msg) ==
    /\ Len(msg) >= Len(Str_data) + 1 + Len(Str_base64) + 1
    /\ SubSeq(msg, 1, 5) = Str_data
    /\ msg[6] # ";"
    /\ SubSeq(msg, 7, 14) = Str_base64
    /\ \A i \in 15..Len(msg) : msg[i] \notin LineTerminators
MediaMime(msg) == <<msg[6]>>
MediaData(msg) == SubSeq(msg, 15, Len(msg))

\* the normalisation without its test: '@c.us' is appended to every address
NormalizedToAlwaysAppends(job) == job.to \o Str_cus

\* const to = job.to.endsWith('.us') ? job.to : job.to + '@c.us'
NormalizedTo(job) ==
    IF EndsWith(job.to, Str_us) THEN job.to ELSE job.to \o Str_cus

\* to.endsWith('@c.us'): the addresses whose existence is checked
NeedsExistenceCheck(to) == EndsWith(to, Str_cus)

\* ----------------------------------------------------------------- helpers
Runs == 1..MaxRuns

\* channel.consume succeeded on run k's channel and the channel is still open
ConsumerRegistered(k) ==
    /\ k <= Len(runs)
    /\ runs[k].pc = "consuming"
    /\ chan[k] = "open"

\* room left in the model for n more invocations of main()
CanSchedule(n) == Len(runs) + n <= MaxRuns

\* the delivery tag the broker gives the next message of channel k
NextTag(k) == 1 + Cardinality({d \in 1..Len(msgs) : msgs[d].conn = k})

\* --------------------------------------------------------------- initially
Start(published, observer) ==
    /\ queue = published
    /\ elapsed = 0                             \* Date.now() at load, app.ts:40
    /\ waReady = FALSE                         \* app.ts:39
    /\ channel = 0
    /\ runs = <<[pc |-> "connect", delay |-> 0]>> \* main() at app.ts:185
    /\ conn = [k \in Runs |-> "none"]
    /\ chan = [k \in Runs |-> "none"]
    /\ unacked = [k \in Runs |-> 0]
    /\ msgs = <<>>
    /\ sinceStart = observer

\* the program at load, the spacing of processJob calls not observed
Init == Start(Payloads, -2)

\* the same, the spacing of processJob calls observed
SpacingInit == Start(Payloads, -1)

\* the program at load, one job of any shape published, over and over
DeliveryInit == \E job \in Jobs : Start({job}, -2)

\* ------------------------------------------------------------ environment
\* a clock counted up to RATE_LIMIT_TIME_MS
Later(c) == IF c < RATE_LIMIT_TIME_MS THEN c + 1 ELSE c

\* a timer's remaining delay, one tick later
Sooner(t) == IF t > 0 THEN t - 1 ELSE 0

\* one tick of time passes: the clocks advance, the pending timers get closer
Tick ==
    /\ elapsed' = Later(elapsed)
    /\ sinceStart' = IF sinceStart \in 0..(RATE_LIMIT_TIME_MS - 2)
                       THEN sinceStart + 1
                       ELSE IF sinceStart = -2 THEN -2 ELSE -1
    /\ runs' = [k \in 1..Len(runs) |-> [runs[k] EXCEPT !.delay = Sooner(@)]]
    /\ msgs' = [d \in 1..Len(msgs) |-> [msgs[d] EXCEPT !.delay = Sooner(@)]]
    /\ <<elapsed, sinceStart, runs, msgs>>' # <<elapsed, sinceStart, runs, msgs>>
    /\ UNCHANGED <<queue, waReady, channel, conn, chan, unacked>>

\* a client whose events also reset the flag (a 'disconnected' handler, say)
ClientReadyOrDisconnected ==
    /\ waReady' = ~waReady
    /\ UNCHANGED <<queue, elapsed, channel, runs, conn,
                   chan, unacked, msgs, sinceStart>>

\* client.on('ready', ...); client.on('error', ...) only logs
ClientReady ==
    /\ ~waReady
    /\ waReady' = TRUE
    /\ UNCHANGED <<queue, elapsed, channel, runs, conn,
                   chan, unacked, msgs, sinceStart>>

\* -------------------------------------------------- connection supervisor
\* n calls of reconnectAfterDelay(main), each a setTimeout(main, 1000),
\* rs being the runs so far
ReconnectAfterDelay(rs, n) ==
    runs' = rs \o [i \in 1..n |-> [pc |-> "timer", delay |-> ReconnectDelay]]

\* the catch block of main, taken by run k
MainCatch(k) ==
    /\ CanSchedule(1)
    /\ ReconnectAfterDelay([runs EXCEPT ![k].pc = "failed"], 1)

\* the reconnect timer of run k fires: main() runs up to its first await;
\* timers of one delay fire in the order they were set
ReconnectTimerFires(k) ==
    /\ runs[k].pc = "timer"
    /\ runs[k].delay = 0
    /\ \A j \in 1..(k - 1) : runs[j].pc # "timer"
    /\ runs' = [runs EXCEPT ![k].pc = "connect"]
    /\ UNCHANGED <<queue, elapsed, waReady, channel,
                   conn, chan, unacked, msgs, sinceStart>>

\* amqp.connect resolves: the 'error' and 'close' handlers are registered,
\* createChannel is requested
ConnectOk(k) ==
    /\ runs[k].pc = "connect"
    /\ conn' = [conn EXCEPT ![k] = "open"]
    /\ runs' = [runs EXCEPT ![k].pc = "createChannel"]
    /\ UNCHANGED <<queue, elapsed, waReady, channel, chan, unacked,
                   msgs, sinceStart>>

\* amqp.connect rejects
ConnectFails(k) ==
    /\ runs[k].pc = "connect"
    /\ MainCatch(k)
    /\ UNCHANGED <<queue, elapsed, waReady, channel,
                   conn, chan, unacked, msgs, sinceStart>>

\* connection.createChannel resolves: the handle is stored, assertQueue is requested
CreateChannelOk(k) ==
    /\ runs[k].pc = "createChannel"
    /\ conn[k] = "open"
    /\ channel' = k
    /\ chan' = [chan EXCEPT ![k] = "open"]
    /\ runs' = [runs EXCEPT ![k].pc = "assertQueue"]
    /\ UNCHANGED <<queue, elapsed, waReady, conn,
                   unacked, msgs, sinceStart>>

\* connection.createChannel rejects while the connection stays open
CreateChannelFails(k) ==
    /\ runs[k].pc = "createChannel"
    /\ conn[k] = "open"
    /\ MainCatch(k)
    /\ UNCHANGED <<queue, elapsed, waReady, channel,
                   conn, chan, unacked, msgs, sinceStart>>

\* channel.assertQueue resolves: prefetch(1) and consume are sent, neither
\* is awaited, and main returns
AssertQueueOk(k) ==
    /\ runs[k].pc = "assertQueue"
    /\ chan[k] = "open"
    /\ runs' = [runs EXCEPT ![k].pc = "consume"]
    /\ UNCHANGED <<queue, elapsed, waReady, channel,
                   conn, chan, unacked, msgs, sinceStart>>

\* channel.assertQueue rejects: the broker closes the channel, or has
\* closed it, and the connection stays open
AssertQueueFails(k) ==
    /\ runs[k].pc = "assertQueue"
    /\ chan' = [chan EXCEPT ![k] = "closed"]
    /\ MainCatch(k)
    /\ UNCHANGED <<queue, elapsed, waReady, channel,
                   conn, unacked, msgs, sinceStart>>

\* the broker answers consume-ok: processMessage is the queue's consumer
ConsumeOk(k) ==
    /\ runs[k].pc = "consume"
    /\ chan[k] = "open"
    /\ runs' = [runs EXCEPT ![k].pc = "consuming"]
    /\ UNCHANGED <<queue, elapsed, waReady, channel,
                   conn, chan, unacked, msgs, sinceStart>>

\* the promise of channel.consume rejects (the broker closes the channel, or
\* has closed it, and the connection stays open); main has returned and
\* nothing awaits that promise, so no catch block runs
ConsumeFails(k) ==
    /\ runs[k].pc = "consume"
    /\ chan' = [chan EXCEPT ![k] = "closed"]
    /\ runs' = [runs EXCEPT ![k].pc = "consumeFailed"]
    /\ UNCHANGED <<queue, elapsed, waReady, channel,
                   conn, unacked, msgs, sinceStart>>

\* The connection of run k goes down and `handlers` of its event handlers
\* run, each calling reconnectAfterDelay(main).  The request run k awaits,
\* if any, rejects in the same turn of the event loop: main's catch block
\* calls reconnectAfterDelay(main) once more; a pending consume rejects
\* with nothing awaiting it.  Nothing more happens on this connection and
\* its channel: the run is recorded as "down".
ConnectionDown(k, handlers) ==
    LET caught == runs[k].pc \in {"createChannel", "assertQueue"}
        n == handlers + (IF caught THEN 1 ELSE 0)
    IN  /\ conn[k] = "open"
        /\ CanSchedule(n)
        /\ conn' = [conn EXCEPT ![k] = "closed"]
        /\ chan' = [chan EXCEPT ![k] = "closed"]
        /\ unacked' = [unacked EXCEPT ![k] = 0]
        /\ ReconnectAfterDelay([runs EXCEPT ![k].pc = "down"], n)
        /\ UNCHANGED <<queue, elapsed, waReady, channel, msgs, sinceStart>>

\* the connection of run k fails: connection.on('error', ...) runs, then
\* connection.on('close', ...), which amqplib emits after every 'error'
ConnError(k) == ConnectionDown(k, 2)

\* the connection of run k is closed by the broker without an error:
\* connection.on('close', ...) runs
ConnClose(k) == ConnectionDown(k, 1)

\* ------------------------------------------------------- message records
\* a message as the broker hands it over on channel k
Message(k, payload) ==
    [conn |-> k, tag |-> NextTag(k), job |-> payload, pc |-> "new",
     delay |-> 0, ready |-> "na", ret |-> "none", calls |-> <<>>,
     settled |-> <<>>]

\* processMessage and everything it started have ended for message m
Finished(m) == m.pc \in {"done", "decodeFault", "past"}

\* msgs keeps the full record of the messages in progress, of the messages
\* whose content did not decode and of the message that was settled last
\* (d); of a message settled earlier it keeps the channel and the delivery
\* tag only
LastFinished(d, ms) ==
    [i \in 1..Len(ms) |->
        IF i # d /\ ms[i].pc \in {"done", "past"}
          THEN [Message(ms[i].conn, Malformed) EXCEPT !.tag = ms[i].tag, !.pc = "past"]
          ELSE ms[i]]

\* ------------------------------------------------------------ broker side
\* What the broker does with a basic.ack / basic.nack for delivery tag `tag`
\* sent on channel c, u being its record of unsettled deliveries.  Sent on a
\* closed channel, amqplib throws and nothing reaches the broker.  A tag that
\* is not the unsettled delivery of c is a channel error (PRECONDITION_FAILED):
\* the broker closes c and requeues what c had unsettled.
BrokerSettle(c, tag, u) ==
    /\ unacked' = IF chan[c] = "open" THEN [u EXCEPT ![c] = 0] ELSE u
    /\ chan' = IF chan[c] = "open" /\ u[c] # tag
                 THEN [chan EXCEPT ![c] = "closed"]
                 ELSE chan

\* ------------------------------------------------ acknowledgment controller
\* the record of one channel.ack(message) or channel.nack(message) call:
\* the handle used and whether that channel was open
BrokerCall(op) == [op |-> op, ch |-> channel, open |-> chan[channel] = "open"]

\* handleJobOutcome with the else branch left out: a false outcome calls nothing
HandleJobOutcomeAckOnly(proceed, d, ms, u) ==
    IF proceed
      THEN /\ msgs' = LastFinished(d, [ms EXCEPT ![d].settled = Append(@, BrokerCall("ack"))])
           /\ BrokerSettle(channel, ms[d].tag, u)
      ELSE /\ msgs' = LastFinished(d, ms)
           /\ chan' = chan
           /\ unacked' = u

\* handleJobOutcome with its branches swapped
HandleJobOutcomeSwapped(proceed, d, ms, u) ==
    /\ msgs' = LastFinished(d,
                    [ms EXCEPT ![d].settled =
                        Append(@, BrokerCall(IF proceed THEN "nack" ELSE "ack"))])
    /\ BrokerSettle(channel, ms[d].tag, u)

\* handleJobOutcome(proceed, message), message being ms[d]
HandleJobOutcome(proceed, d, ms, u) ==
    /\ msgs' = LastFinished(d,
                    [ms EXCEPT ![d].settled =
                        Append(@, BrokerCall(IF proceed THEN "ack" ELSE "nack"))])
    /\ BrokerSettle(channel, ms[d].tag, u)

\* ------------------------------------------------------ delivery processor
\* the record of an adapter call: its arguments and, once the call has
\* settled, what the adapter answered
NoMedia == [mime |-> <<>>, data |-> <<>>]
IsRegisteredCall(to) ==
    [fn |-> "isRegisteredUser", to |-> to, body |-> <<>>, media |-> NoMedia,
     options |-> "none", res |-> "pending"]
SendCall(to, body) ==
    [fn |-> "sendMessage", to |-> to, body |-> body, media |-> NoMedia,
     options |-> "none", res |-> "pending"]

\* client.sendMessage(to, new MessageMedia(mime, data), job.options)
SendMediaCall(to, mime, data, options) ==
    [fn |-> "sendMessage", to |-> to, body |-> <<>>,
     media |-> [mime |-> mime, data |-> data], options |-> options,
     res |-> "pending"]

\* the dispatch without the pattern: every media job is sent as media
DispatchByTypeOnly(job) ==
    IF job.type = "media"
      THEN SendMediaCall(NormalizedTo(job), <<>>, job.msg, job.options)
      ELSE SendCall(NormalizedTo(job), job.msg)

\* the sendMessage call processJob makes for job
Dispatch(job) ==
    IF job.type = "media" /\ MediaMatches(job.msg)
      THEN SendMediaCall(NormalizedTo(job), MediaMime(job.msg), MediaData(job.msg),
                         job.options)
      ELSE SendCall(NormalizedTo(job), job.msg)

\* the pending adapter call of message d settles with answer r
Answered(d, r) == [msgs EXCEPT ![d].calls[Len(msgs[d].calls)].res = r]

\* processJob(job) returns proceed; its caller passes that to handleJobOutcome
ProcessJobReturns(proceed, d, ms, u) ==
    HandleJobOutcome(proceed, d,
        [ms EXCEPT ![d].pc = "done",
                   ![d].ret = IF proceed THEN "true" ELSE "false"], u)

\* processJob without its waReady check
ProcessJobNoReadyCheck(d, ms, u) ==
    LET job == ms[d].job
        to == NormalizedTo(job)
        m1 == [ms EXCEPT ![d].delay = 0,
                         ![d].ready = IF waReady THEN "yes" ELSE "no"]
    IN  /\ sinceStart' = IF sinceStart = -2 THEN -2 ELSE 0
        /\ IF NeedsExistenceCheck(to)
             THEN msgs' = [m1 EXCEPT ![d].pc = "isRegisteredUser",
                                     ![d].calls = <<IsRegisteredCall(to)>>]
             ELSE msgs' = [m1 EXCEPT ![d].pc = "sendMessage",
                                     ![d].calls = <<Dispatch(job)>>]
        /\ chan' = chan
        /\ unacked' = u

\* processJob(job) from its call to its first await, or to its return when
\* the client is not ready
ProcessJob(d, ms, u) ==
    LET job == ms[d].job
        to == NormalizedTo(job)
        m1 == [ms EXCEPT ![d].delay = 0,
                         ![d].ready = IF waReady THEN "yes" ELSE "no"]
    IN  /\ sinceStart' = IF sinceStart = -2 THEN -2 ELSE 0
        /\ IF ~waReady
             THEN ProcessJobReturns(FALSE, d, m1, u)
             ELSE /\ IF NeedsExistenceCheck(to)
                       THEN msgs' = [m1 EXCEPT ![d].pc = "isRegisteredUser",
                                               ![d].calls = <<IsRegisteredCall(to)>>]
                       ELSE msgs' = [m1 EXCEPT ![d].pc = "sendMessage",
                                               ![d].calls = <<Dispatch(job)>>]
                  /\ chan' = chan
                  /\ unacked' = u

\* processJob returning false for a recipient that is not registered
IsRegisteredUserSettlesRequeue(d, r) ==
    /\ msgs[d].pc = "isRegisteredUser"
    /\ IF r \in {"throw", "no"}
         THEN ProcessJobReturns(FALSE, d, Answered(d, r), unacked)
         ELSE /\ msgs' = [Answered(d, r) EXCEPT
                     ![d].pc = "sendMessage",
                     ![d].calls = Append(@, Dispatch(msgs[d].job))]
              /\ UNCHANGED <<chan, unacked>>
    /\ UNCHANGED <<queue, elapsed, waReady, channel, runs, conn, sinceStart>>

\* client.isRegisteredUser(to) settles: it resolves to true ("yes") or to
\* false ("no"), or it rejects ("throw")
IsRegisteredUserSettles(d, r) ==
    /\ msgs[d].pc = "isRegisteredUser"
    /\ IF r = "throw"
         THEN ProcessJobReturns(FALSE, d, Answered(d, r), unacked)
         ELSE IF r = "no"
           THEN ProcessJobReturns(TRUE, d, Answered(d, r), unacked)
           ELSE /\ msgs' = [Answered(d, r) EXCEPT
                       ![d].pc = "sendMessage",
                       ![d].calls = Append(@, Dispatch(msgs[d].job))]
                /\ UNCHANGED <<chan, unacked>>
    /\ UNCHANGED <<queue, elapsed, waReady, channel, runs, conn, sinceStart>>

\* processJob without its try/catch: a rejection of sendMessage rejects the
\* promise of processJob, and handleJobOutcome is not reached
SendMessageSettlesNoCatch(d, r) ==
    /\ msgs[d].pc = "sendMessage"
    /\ IF r = "ok"
         THEN ProcessJobReturns(TRUE, d, Answered(d, r), unacked)
         ELSE /\ msgs' = LastFinished(d, [Answered(d, r) EXCEPT ![d].pc = "done"])
              /\ UNCHANGED <<chan, unacked>>
    /\ UNCHANGED <<queue, elapsed, waReady, channel, runs, conn, sinceStart>>

\* client.sendMessage(to, ...) settles: it resolves ("ok") or rejects ("throw")
SendMessageSettles(d, r) ==
    /\ msgs[d].pc = "sendMessage"
    /\ ProcessJobReturns(r = "ok", d, Answered(d, r), unacked)
    /\ UNCHANGED <<queue, elapsed, waReady, channel, runs, conn, sinceStart>>

\* ------------------------------------------------------- job consumer loop
\* processMessage under a channel without prefetch(1): the broker delivers
\* whatever the channel has unsettled
ProcessMessageNoPrefetch(k, payload) ==
    LET d == Len(msgs) + 1
        ms == Append(msgs, Message(k, payload))
        u == [unacked EXCEPT ![k] = ms[d].tag]
    IN  /\ ConsumerRegistered(k)
        /\ Len(msgs) < MaxMsgs
        /\ IF ~payload.parses
             THEN /\ msgs' = LastFinished(d, [ms EXCEPT ![d].pc = "decodeFault"])
                  /\ unacked' = u
                  /\ UNCHANGED <<chan, sinceStart>>
             ELSE IF elapsed < RATE_LIMIT_TIME_MS
               THEN /\ msgs' = [ms EXCEPT ![d].pc = "timer",
                                          ![d].delay = RATE_LIMIT_TIME_MS - elapsed]
                    /\ unacked' = u
                    /\ UNCHANGED <<chan, sinceStart>>
               ELSE ProcessJob(d, ms, u)
        /\ UNCHANGED <<queue, elapsed, waReady, channel,
                       runs, conn>>

\* processMessage without the spacing check: processJob is called at once
ProcessMessageNoDeferral(k, payload) ==
    LET d == Len(msgs) + 1
        ms == Append(msgs, Message(k, payload))
        u == [unacked EXCEPT ![k] = ms[d].tag]
    IN  /\ ConsumerRegistered(k)
        /\ unacked[k] = 0
        /\ Len(msgs) < MaxMsgs
        /\ IF ~payload.parses
             THEN /\ msgs' = LastFinished(d, [ms EXCEPT ![d].pc = "decodeFault"])
                  /\ unacked' = u
                  /\ UNCHANGED <<chan, sinceStart>>
             ELSE ProcessJob(d, ms, u)
        /\ UNCHANGED <<queue, elapsed, waReady, channel,
                       runs, conn>>

\* processMessage(message): the broker delivers a message with content
\* `payload` to the consumer of channel k
ProcessMessage(k, payload) ==
    LET d == Len(msgs) + 1
        ms == Append(msgs, Message(k, payload))
        u == [unacked EXCEPT ![k] = ms[d].tag]
    IN  /\ ConsumerRegistered(k)
        /\ unacked[k] = 0                       \* channel.prefetch(1)
        /\ Len(msgs) < MaxMsgs
        /\ IF ~payload.parses
             THEN \* JSON.parse throws: the promise of processMessage rejects
                  /\ msgs' = LastFinished(d, [ms EXCEPT ![d].pc = "decodeFault"])
                  /\ unacked' = u
                  /\ UNCHANGED <<chan, sinceStart>>
             ELSE IF elapsed < RATE_LIMIT_TIME_MS
               THEN /\ msgs' = [ms EXCEPT ![d].pc = "timer",
                                          ![d].delay = RATE_LIMIT_TIME_MS - elapsed]
                    /\ unacked' = u
                    /\ UNCHANGED <<chan, sinceStart>>
               ELSE ProcessJob(d, ms, u)
        /\ UNCHANGED <<queue, elapsed, waReady, channel,
                       runs, conn>>

\* processMessage(null) taken for a delivery: the null check left out and
\* the null handled as content that does not decode
ProcessMessageNullAsDelivery(k) ==
    /\ ConsumerRegistered(k)
    /\ Len(msgs) < MaxMsgs
    /\ runs' = [runs EXCEPT ![k].pc = "cancelled"]
    /\ msgs' = Append(msgs, [Message(k, Malformed) EXCEPT !.pc = "decodeFault"])
    /\ UNCHANGED <<queue, elapsed, waReady, channel, conn, chan, unacked,
                   sinceStart>>

\* processMessage(null): the broker cancels the consumer of channel k (the
\* queue is deleted, say) and amqplib calls the consumer callback with null;
\* the channel and the connection stay open
ProcessMessageNull(k) ==
    /\ ConsumerRegistered(k)
    /\ runs' = [runs EXCEPT ![k].pc = "cancelled"]
    /\ UNCHANGED <<queue, elapsed, waReady, channel, conn, chan, unacked,
                   msgs, sinceStart>>

\* the spacing timer of message d fires
SpacingTimerFires(d) ==
    /\ msgs[d].pc = "timer"
    /\ msgs[d].delay = 0
    /\ ProcessJob(d, msgs, unacked)
    /\ UNCHANGED <<queue, elapsed, waReady, channel,
                   runs, conn>>

\* ------------------------------------------------------------ specification
Next ==
    \/ Tick
    \/ ClientReady
    \/ \E k \in 1..Len(runs) : ReconnectTimerFires(k)
    \/ \E k \in 1..Len(runs) : ConnectOk(k)
    \/ \E k \in 1..Len(runs) : ConnectFails(k)
    \/ \E k \in 1..Len(runs) : CreateChannelOk(k)
    \/ \E k \in 1..Len(runs) : CreateChannelFails(k)
    \/ \E k \in 1..Len(runs) : AssertQueueOk(k)
    \/ \E k \in 1..Len(runs) : AssertQueueFails(k)
    \/ \E k \in 1..Len(runs) : ConsumeOk(k)
    \/ \E k \in 1..Len(runs) : ConsumeFails(k)
    \/ \E k \in 1..Len(runs) : ConnError(k)
    \/ \E k \in 1..Len(runs) : ConnClose(k)
    \/ \E k \in 1..Len(runs), payload \in queue : ProcessMessage(k, payload)
    \/ \E d \in 1..Len(msgs) : SpacingTimerFires(d)
    \/ \E d \in 1..Len(msgs), r \in {"yes", "no", "throw"} : IsRegisteredUserSettles(d, r)
    \/ \E d \in 1..Len(msgs), r \in {"ok", "throw"} : SendMessageSettles(d, r)

Spec == Init /\ [][Next]_vars

\* the same program, the spacing of processJob calls observed
SpacingSpec == SpacingInit /\ [][Next]_vars

\* the same program, one job of any shape published
DeliverySpec == DeliveryInit /\ [][Next]_vars

\* the same program with a broker that also cancels consumers.  A
\* cancellation changes nothing the program holds (ProcessMessageNull): it
\* leaves the channel without a consumer, as a run whose consume request is
\* still unanswered.
CancelNext ==
    \/ Next
    \/ \E k \in 1..Len(runs) : ProcessMessageNull(k)

CancelSpec == Init /\ [][CancelNext]_vars

\* a step of time, of a spacing timer or of the adapter
Progress ==
    \/ Tick
    \/ \E d \in 1..Len(msgs) : SpacingTimerFires(d)
    \/ \E d \in 1..Len(msgs), r \in {"yes", "no", "throw"} : IsRegisteredUserSettles(d, r)
    \/ \E d \in 1..Len(msgs), r \in {"ok", "throw"} : SendMessageSettles(d, r)

\* under the scheduling of the event loop: time passes, a timer that is due
\* fires, and (an assumption on the adapter) a pending adapter call settles
FairSpec == Spec /\ WF_vars(Progress)

\* ------------------------------------------------------------------ claims
\* the messages whose full record msgs holds
Recorded == {d \in 1..Len(msgs) : msgs[d].pc # "past"}

\* the channel.ack / channel.nack calls made for message d, by name
Ops(d) == [i \in 1..Len(msgs[d].settled) |-> msgs[d].settled[i].op]

\* message d is inside processJob: called and not yet returned
InProcessJob(d) == msgs[d].pc \in {"isRegisteredUser", "sendMessage"}

\* processJob is called for message d in this step
CalledNow(d) ==
    /\ msgs'[d].ready # "na"
    /\ d > Len(msgs) \/ msgs[d].ready = "na"

\* C1 (under SpacingSpec): any two consecutive calls of processJob are at
\* least RATE_LIMIT_TIME_MS apart: whenever processJob is called, the
\* previous call, if any, was made at least RATE_LIMIT_TIME_MS earlier.
SpacingInvariant ==
    [][\A d \in 1..Len(msgs') :
          CalledNow(d) => sinceStart = -1]_vars

\* C2: at most one job is between the call and the return of processJob.
SingleInFlight ==
    Cardinality({d \in 1..Len(msgs) : InProcessJob(d)}) <= 1

AckNackOnce ==
    \A d \in Recorded :
        /\ Len(msgs[d].settled) <= 1
        /\ msgs[d].pc = "done" <=> Len(msgs[d].settled) = 1
        /\ ~msgs[d].job.parses => msgs[d].pc = "decodeFault"

\* every message whose content decodes has had its ack or nack
AllDecodableSettled ==
    \A d \in Recorded : msgs[d].job.parses => msgs[d].pc = "done"

NoStaleHandle ==
    \A d \in Recorded :
        \A i \in 1..Len(msgs[d].settled) :
            /\ msgs[d].settled[i].ch = msgs[d].conn
            /\ msgs[d].settled[i].open

\* a run of main that is waiting for its timer or for the broker's answer
SettingUp(k) ==
    runs[k].pc \in {"timer", "connect", "createChannel", "assertQueue", "consume"}

\* C5: the supervisor never gives up: once a connection has gone down,
\* either a consumer is registered or a run of main is on its way to
\* register one (its timer pending, or its setup in progress).
SupervisorNeverGivesUp ==
    (\E k \in 1..Len(runs) : conn[k] = "closed")
        => \E k \in 1..Len(runs) : ConsumerRegistered(k) \/ SettingUp(k)

\* C6: whenever connect, createChannel, assertQueue or consume fails for a
\* run of main, a re-run of main is scheduled.
SetupFailureRecovered ==
    [][\A k \in 1..Len(runs) :
          (/\ runs[k].pc \in {"connect", "createChannel", "assertQueue", "consume"}
           /\ runs'[k].pc \in {"failed", "consumeFailed", "down"})
              => Len(runs') > Len(runs)]_vars

\* C7: a true outcome calls channel.ack and nothing else, a false outcome
\* calls channel.nack and nothing else, and no ack or nack is called for a
\* message for which processJob has not returned.
OutcomeMapping ==
    \A d \in Recorded :
        /\ msgs[d].ret = "true" => Ops(d) = <<"ack">>
        /\ msgs[d].ret = "false" => Ops(d) = <<"nack">>
        /\ msgs[d].ret = "none" => Ops(d) = <<>>

OutcomeMappingWitness ==
    \E d \in Recorded : msgs[d].ret = "true" /\ Ops(d) = <<"ack">>

\* C8: a job for which processJob is called while waReady is false returns
\* false, its message is nacked, and no adapter call is made for it.
NotReadyRequeued ==
    \A d \in Recorded :
        msgs[d].ready = "no" =>
            /\ msgs[d].pc = "done"
            /\ msgs[d].ret = "false"
            /\ Ops(d) = <<"nack">>
            /\ msgs[d].calls = <<>>

NotReadyWitness ==
    \E d \in Recorded : msgs[d].ready = "no" /\ Ops(d) = <<"nack">>

\* C9: when the adapter reports that the recipient of a single-user address
\* does not exist, processJob returns true, the message is acked and not
\* nacked, and sendMessage is not called.
NonexistentRecipientAcked ==
    \A d \in Recorded :
        \A i \in 1..Len(msgs[d].calls) :
            (msgs[d].calls[i].fn = "isRegisteredUser" /\ msgs[d].calls[i].res = "no") =>
                /\ EndsWith(msgs[d].calls[i].to, Str_cus)
                /\ msgs[d].pc = "done"
                /\ msgs[d].ret = "true"
                /\ Ops(d) = <<"ack">>
                /\ \A j \in 1..Len(msgs[d].calls) : msgs[d].calls[j].fn # "sendMessage"

NonexistentRecipientWitness ==
    \E d \in Recorded :
        /\ msgs[d].calls # <<>>
        /\ msgs[d].calls[1].res = "no"
        /\ Ops(d) = <<"ack">>

\* C10: when isRegisteredUser or sendMessage raises an error, processJob
\* returns false and the message is nacked.
AdapterErrorRequeued ==
    \A d \in Recorded :
        \A i \in 1..Len(msgs[d].calls) :
            msgs[d].calls[i].res = "throw" =>
                /\ msgs[d].pc = "done"
                /\ msgs[d].ret = "false"
                /\ Ops(d) = <<"nack">>

AdapterErrorWitness ==
    \E d \in Recorded :
        /\ Len(msgs[d].calls) = 2
        /\ msgs[d].calls[2].fn = "sendMessage"
        /\ msgs[d].calls[2].res = "throw"
        /\ Ops(d) = <<"nack">>

\* the indexes of the sendMessage calls made for message d
Sends(d) == {i \in 1..Len(msgs[d].calls) : msgs[d].calls[i].fn = "sendMessage"}

\* an address that carries no domain suffix
Bare(to) == \A i \in 1..Len(to) : to[i] \notin {"@", "."}

\* C11 (under DeliverySpec): for a text job processed while the client is
\* ready, sendMessage is called at most once, and exactly once as soon as
\* the recipient is known to exist, with the normalized address and job.msg
\* as plain text; when that call succeeds processJob returns true and the
\* message is acked.  The normalized address of a bare job.to is
\* job.to + '@c.us' and its existence is checked first; a job.to that ends
\* in the group suffix is used unchanged and without an existence check.
TextDelivered ==
    \A d \in Recorded :
        LET m == msgs[d]
            job == m.job
        IN  (job.parses /\ job.type = "text" /\ m.ready = "yes") =>
              /\ Cardinality(Sends(d)) <= 1
              /\ \A i \in Sends(d) :
                    /\ i = Len(m.calls)
                    /\ m.calls[i].body = job.msg
                    /\ m.calls[i].media = NoMedia
                    /\ Bare(job.to) => m.calls[i].to = job.to \o Str_cus
                    /\ EndsWith(job.to, Str_gus) => m.calls[i].to = job.to
                    /\ m.calls[i].res = "ok" =>
                          m.pc = "done" /\ m.ret = "true" /\ Ops(d) = <<"ack">>
              /\ Bare(job.to) =>
                    /\ m.calls # <<>>
                    /\ m.calls[1] = [IsRegisteredCall(job.to \o Str_cus)
                                        EXCEPT !.res = m.calls[1].res]
                    /\ m.calls[1].res = "yes" => Sends(d) = {2}
                    /\ m.calls[1].res # "yes" => Sends(d) = {}
              /\ EndsWith(job.to, Str_gus) => Sends(d) = {1}

TextDeliveredWitness ==
    \E d \in Recorded :
        /\ msgs[d].job = TextJob(Str_5, <<"h", "i">>)
        /\ Len(msgs[d].calls) = 2
        /\ msgs[d].calls[1].res = "yes"
        /\ msgs[d].calls[2] = [SendCall(Str_5 \o Str_cus, <<"h", "i">>) EXCEPT !.res = "ok"]
        /\ msgs[d].ret = "true"
        /\ Ops(d) = <<"ack">>

\* msg has the form data:<mime>;base64,<data>, the MIME type being of n
\* characters (n > 0) and the data not empty
IsDataUrl(msg, n) ==
    /\ Len(msg) >= Len(Str_data) + n + Len(Str_base64) + 1
    /\ SubSeq(msg, 1, 5) = Str_data
    /\ \A i \in 6..(5 + n) : msg[i] # ";"
    /\ SubSeq(msg, 6 + n, 13 + n) = Str_base64

\* C12 (under DeliverySpec): for a media job whose msg has the form
\* data:<mime>;base64,<data>, every sendMessage call made for it carries a
\* media payload of that MIME type and data, with job.options, and no text.
MediaDispatched ==
    \A d \in Recorded :
        \A n \in 1..Len(msgs[d].job.msg) :
            (msgs[d].job.type = "media" /\ IsDataUrl(msgs[d].job.msg, n)) =>
                \A i \in Sends(d) :
                    /\ msgs[d].calls[i].media =
                          [mime |-> SubSeq(msgs[d].job.msg, 6, 5 + n),
                           data |-> SubSeq(msgs[d].job.msg, 14 + n, Len(msgs[d].job.msg))]
                    /\ msgs[d].calls[i].options = msgs[d].job.options
                    /\ msgs[d].calls[i].body = <<>>

\* C13 (under DeliverySpec): for a media job whose msg has not the form
\* data:<mime>;base64,<data>, processed while the client is ready,
\* sendMessage is called at most once, and exactly once as soon as the
\* recipient is known to exist, with the normalized address and msg as plain
\* text; when that call succeeds processJob returns true.
MediaFallback ==
    \A d \in Recorded :
        LET m == msgs[d]
            job == m.job
        IN  (/\ job.type = "media"
             /\ m.ready = "yes"
             /\ \A n \in 1..Len(job.msg) : ~IsDataUrl(job.msg, n)) =>
              /\ Cardinality(Sends(d)) <= 1
              /\ \A i \in Sends(d) :
                    /\ m.calls[i] = [SendCall(NormalizedTo(job), job.msg)
                                        EXCEPT !.res = m.calls[i].res]
                    /\ m.calls[i].res = "ok" => m.pc = "done" /\ m.ret = "true"
              /\ (m.calls # <<>> /\ m.calls[1].fn = "isRegisteredUser"
                     /\ m.calls[1].res = "yes") => Sends(d) = {2}

MediaFallbackWitness ==
    \E d \in Recorded :
        /\ msgs[d].job = MediaJob(Str_5, <<"h", "i">>)
        /\ Len(msgs[d].calls) = 2
        /\ msgs[d].calls[2] = [SendCall(Str_5 \o Str_cus, <<"h", "i">>) EXCEPT !.res = "ok"]
        /\ msgs[d].ret = "true"

\* C14: each time processJob is called for a message,
\* lastProcessedTimeStamp is set to the current time: right after the call,
\* Date.now() - lastProcessedTimeStamp is 0.
TimestampUpdated ==
    [][\A d \in 1..Len(msgs') : CalledNow(d) => elapsed' = 0]_vars

\* C15: a message whose content decodes and that is delivered with
\* elapsed < RATE_LIMIT_TIME_MS gets a timer of RATE_LIMIT_TIME_MS - elapsed
\* and processJob is not called for it in processMessage; delivered with
\* elapsed >= RATE_LIMIT_TIME_MS, processJob is called for it at once and it
\* gets no timer.  A pending timer is never cancelled: it stays pending
\* until it is due and fires, and firing calls processJob for its message;
\* no ack or nack is called for a message before processJob is called for it.
DeferralDecision ==
    [][/\ \A d \in 1..Len(msgs') :
            (d > Len(msgs) /\ msgs'[d].job.parses) =>
                IF elapsed < RATE_LIMIT_TIME_MS
                  THEN /\ msgs'[d].pc = "timer"
                       /\ msgs'[d].delay = RATE_LIMIT_TIME_MS - elapsed
                       /\ msgs'[d].ready = "na"
                       /\ msgs'[d].calls = <<>>
                  ELSE /\ msgs'[d].pc # "timer"
                       /\ msgs'[d].delay = 0
                       /\ CalledNow(d)
       /\ \A d \in 1..Len(msgs) :
            msgs[d].pc = "timer" =>
                \/ msgs'[d] = msgs[d]
                \/ msgs'[d] = [msgs[d] EXCEPT !.delay = @ - 1] /\ msgs[d].delay > 0
                \/ msgs[d].delay = 0 /\ CalledNow(d) /\ msgs'[d].pc # "timer"
       /\ \A d \in 1..Len(msgs') :
            msgs'[d].ready = "na" => msgs'[d].settled = <<>>]_vars

DeferralWitness ==
    \E d \in Recorded :
        /\ msgs[d].pc = "timer"
        /\ elapsed < RATE_LIMIT_TIME_MS
        /\ msgs[d].delay = RATE_LIMIT_TIME_MS - elapsed

\* C16: for a message whose content does not decode, processJob is not
\* called, no timer is set and neither ack nor nack is called; as long as
\* its channel is open the message stays the unsettled delivery of that
\* channel, and no further message is delivered on that channel.
DecodeFaultStalls ==
    \A d \in Recorded :
        msgs[d].pc = "decodeFault" =>
            /\ msgs[d].ready = "na"
            /\ msgs[d].delay = 0
            /\ msgs[d].calls = <<>>
            /\ msgs[d].settled = <<>>
            /\ chan[msgs[d].conn] = "open" => unacked[msgs[d].conn] = msgs[d].tag
            /\ \A e \in (d + 1)..Len(msgs) : msgs[e].conn # msgs[d].conn

\* C17 (under CancelSpec): processMessage(null) calls processJob for no
\* message, sets no timer, calls neither ack nor nack, and leaves
\* lastProcessedTimeStamp, the channel handle and the broker's connections
\* and channels as they were: the step in which the consumer of a run is
\* cancelled changes none of them and schedules no run of main.
NullMessageNoOp ==
    [][\A k \in 1..Len(runs) :
          (runs[k].pc = "consuming" /\ runs'[k].pc = "cancelled") =>
              /\ msgs' = msgs
              /\ Len(runs') = Len(runs)
              /\ elapsed' = elapsed
              /\ channel' = channel
              /\ waReady' = waReady
              /\ conn' = conn
              /\ chan' = chan
              /\ unacked' = unacked]_vars

NullMessageWitness ==
    \E k \in 1..Len(runs) :
        /\ runs[k].pc = "cancelled"
        /\ channel = k
        /\ chan[k] = "open"

\* message d waits on its spacing timer or is inside processJob
InProgress(d) == msgs[d].pc \in {"timer", "isRegisteredUser", "sendMessage"}

\* no connection of the process has gone down
NoConnectionFault == \A k \in Runs : conn[k] # "closed"

\* C18: as long as no connection has gone down, a message that waits on the
\* spacing timer or is inside processJob is the unsettled delivery of its
\* channel (so the broker, under prefetch 1, delivers nothing more on it);
\* at most one message is in that state; every message delivered before
\* another was settled before the other was delivered, by one ack or nack
\* on the channel that delivered it; and all messages came, with
\* consecutive delivery tags, from one channel.
Backpressure ==
    NoConnectionFault =>
        /\ Cardinality({d \in 1..Len(msgs) : InProgress(d)}) <= 1
        /\ \A d \in 1..Len(msgs) :
              /\ InProgress(d) =>
                    /\ chan[msgs[d].conn] = "open"
                    /\ unacked[msgs[d].conn] = msgs[d].tag
              /\ msgs[d].tag = d
              /\ \A i \in 1..Len(msgs[d].settled) :
                    msgs[d].settled[i].ch = msgs[d].conn /\ msgs[d].settled[i].open
              /\ \A e \in (d + 1)..Len(msgs) :
                    /\ msgs[d].pc \in {"done", "past"}
                    /\ msgs[e].conn = msgs[d].conn

BackpressureWitness ==
    /\ NoConnectionFault
    /\ Len(msgs) = 2
    /\ msgs[1].pc = "done"
    /\ Len(msgs[1].settled) = 1
    /\ msgs[2].pc = "sendMessage"
    /\ unacked[msgs[2].conn] = 2

\* C19: at every moment the live broker connections and the pending
\* reconnect timers are together at most one, and at most one consumer is
\* registered on the job queue.
SingleSupervisor ==
    /\ Cardinality({k \in 1..Len(runs) : conn[k] = "open"})
         + Cardinality({k \in 1..Len(runs) : runs[k].pc = "timer"}) <= 1
    /\ Cardinality({k \in 1..Len(runs) : ConsumerRegistered(k)}) <= 1

\* C20: waReady starts false; the only step that changes it is the client's
\* 'ready' event, which sets it to true and changes nothing else; once it is
\* true it stays true, every later call of processJob passes the readiness
\* check, and a false outcome of such a call comes from an adapter call
\* that raised an error.
ReadyMonotonic ==
    /\ ~waReady
    /\ [][/\ waReady => waReady'
          /\ waReady' # waReady =>
                /\ waReady'
                /\ UNCHANGED <<queue, elapsed, channel, runs, conn, chan,
                               unacked, msgs, sinceStart>>
          /\ \A d \in 1..Len(msgs') :
                (CalledNow(d) /\ waReady) => msgs'[d].ready = "yes"]_vars
    /\ [](\A d \in Recorded :
            (msgs[d].ready = "yes" /\ msgs[d].ret = "false") =>
                /\ waReady
                /\ \E i \in 1..Len(msgs[d].calls) : msgs[d].calls[i].res = "throw")

ReadyMonotonicWitness ==
    /\ waReady
    /\ \E d \in Recorded :
          /\ msgs[d].ready = "yes"
          /\ msgs[d].ret = "false"
          /\ msgs[d].calls[Len(msgs[d].calls)].res = "throw"

====
